---- MODULE Spec2Model ----
(***************************************************************************)
(* Model of compath_resources/curation.py: make_similarity_matricies and   *)
(* calculate_jaccard.                                                      *)
(*                                                                         *)
(* Strings (source names, column names, paths) are sequences of one-       *)
(* character strings, so that concatenation and SequenceMatcher are         *)
(* computed character by character.                                        *)
(*                                                                         *)
(* Python floats that are quotients of two small integers are kept as the  *)
(* exact fraction [num, den] (den > 0): IEEE division is correctly rounded, *)
(* so two quotients are the same float exactly when the fractions are      *)
(* equal, and they compare as the fractions do.  A threshold p/q stands    *)
(* for the float literal nearest to p/q.                                   *)
(***************************************************************************)
EXTENDS Integers, Sequences, FiniteSets

\* ------------------------------------------------------------------ bounds
\* gene symbols are 1..MaxGene
MaxGene == 4
\* a source holds at most MaxPathways pathways (SpecRows, SpecOverlap)
MaxPathways == 2

\* ------------------------------------------------------------ small helpers
Min2(x, y) == IF x <= y THEN x ELSE y

SetMin(S) == CHOOSE x \in S : \A y \in S : x <= y

Range(s) == {s[n] : n \in 1..Len(s)}

Injective(s) == \A m, n \in 1..Len(s) : m # n => s[m] # s[n]

\* the sequences over S without repetition
UniqueSeqs(S) == {s \in UNION {[1..m -> S] : m \in 0..Cardinality(S)} : Injective(s)}

Frac(n, d) == [num |-> n, den |-> d]

\* float comparison of two quotients
FracLt(x, y) == x.num * y.den < y.num * x.den

FracEq(x, y) == x.num * y.den = y.num * x.den

FracLe(x, y) == ~FracLt(y, x)

\* ------------------------------------------------------------ calculate_jaccard
Returned(v) == [kind |-> "return", value |-> v]

Raised(e) == [kind |-> "raise", exc |-> e]

\* Python int / int: true division, ZeroDivisionError on a zero divisor
TrueDiv(n, d) == IF d = 0 THEN Raised("ZeroDivisionError") ELSE Returned(Frac(n, d))

\* faulty variant: divides by the size of the first argument
calculate_jaccard_first(set_1, set_2) ==
    TrueDiv(Cardinality(set_1 \cap set_2), Cardinality(set_1))

calculate_jaccard(set_1, set_2) ==
    LET intersection == Cardinality(set_1 \cap set_2)
        smaller_set  == Min2(Cardinality(set_1), Cardinality(set_2))
    IN  TrueDiv(intersection, smaller_set)

\* ------------------------------------------------- difflib.SequenceMatcher
\* all non-empty matching blocks a[i..i+k-1] = b[j..j+k-1]
MatchingBlocks(a, b) ==
    {t \in (1..Len(a)) \X (1..Len(b)) \X (1..Min2(Len(a), Len(b))) :
        /\ t[1] + t[3] - 1 <= Len(a)
        /\ t[2] + t[3] - 1 <= Len(b)
        /\ SubSeq(a, t[1], t[1] + t[3] - 1) = SubSeq(b, t[2], t[2] + t[3] - 1)}

\* the longest block; of those the earliest in a; of those the earliest in b
find_longest_match(a, b) ==
    LET blocks == MatchingBlocks(a, b)
    IN  IF blocks = {} THEN <<1, 1, 0>>
        ELSE CHOOSE t \in blocks : \A u \in blocks :
                \/ t[3] > u[3]
                \/ t[3] = u[3] /\ t[1] < u[1]
                \/ t[3] = u[3] /\ t[1] = u[1] /\ t[2] <= u[2]

\* total size of get_matching_blocks(): the longest block, then recursively
\* the pieces to its left and to its right
RECURSIVE matches(_, _)
matches(a, b) ==
    LET m == find_longest_match(a, b)
    IN  IF m[3] = 0 THEN 0
        ELSE m[3]
             + matches(SubSeq(a, 1, m[1] - 1), SubSeq(b, 1, m[2] - 1))
             + matches(SubSeq(a, m[1] + m[3], Len(a)), SubSeq(b, m[2] + m[3], Len(b)))

\* SequenceMatcher(None, a, b).ratio() = 2.0 * matches / (len(a) + len(b))
ratio(a, b) ==
    IF Len(a) + Len(b) > 0 THEN Frac(2 * matches(a, b), Len(a) + Len(b))
    ELSE Frac(1, 1)


\* ------------------------------------------------------------------ strings
Str_a == <<"a">>

Str_b == <<"b">>

Str_a_b == <<"a", "_", "b">>

Str_b_a == <<"b", "_", "a">>

\* names the registry may hold (dictionary keys, hence unique in a registry)
SourceNames == {Str_a, Str_b, Str_a_b, Str_b_a}

\* the directory argument of make_similarity_matricies
Directory == <<"o", "u", "t">>

\* posixpath.join(directory, filename)
PathJoin(directory, filename) ==
    IF Len(filename) > 0 /\ filename[1] = "/" THEN filename
    ELSE IF Len(directory) = 0 \/ directory[Len(directory)] = "/"
         THEN directory \o filename
         ELSE directory \o <<"/">> \o filename

\* f'{a_name}_{b_name}.tsv'
ReportFileName(a_name, b_name) ==
    a_name \o <<"_">> \o b_name \o <<".", "t", "s", "v">>

ReportPath(a_name, b_name) == PathJoin(Directory, ReportFileName(a_name, b_name))

\* the columns= argument of pd.DataFrame
Columns(a_name, b_name) ==
    << a_name \o <<"_", "i", "d">>, a_name \o <<"_", "n", "a", "m", "e">>,
       b_name \o <<"_", "i", "d">>, b_name \o <<"_", "n", "a", "m", "e">>,
       <<"gene_set_similarity">>, <<"string_similarity">> >>

\* ------------------------------------------------------------- dictionaries
EmptyDict == [k \in {} |-> {}]

\* d[key] = value
SetItem(d, key, value) ==
    [k \in DOMAIN d \cup {key} |-> IF k = key THEN value ELSE d[k]]

\* faulty variant: dict.get(key, key), a missing key is not an error
GetItemDefault(d, key) ==
    IF key \in DOMAIN d THEN Returned(d[key]) ELSE Returned(key)

\* d[key], KeyError on a missing key
GetItem(d, key) ==
    IF key \in DOMAIN d THEN Returned(d[key]) ELSE Raised("KeyError")

\* -------------------------------------------------------------- itertools
\* faulty variant: itertools.combinations_with_replacement(items, 2)
RECURSIVE CombinationsWithReplacement(_)
CombinationsWithReplacement(items) ==
    IF Len(items) = 0 THEN <<>>
    ELSE [j \in 1..Len(items) |-> <<items[1], items[j]>>]
         \o CombinationsWithReplacement(Tail(items))

\* itertools.combinations(items, r=2): positions i < j, in lexicographic order
RECURSIVE Combinations(_)
Combinations(items) ==
    IF Len(items) < 2 THEN <<>>
    ELSE [j \in 1..(Len(items) - 1) |-> <<items[1], items[j + 1]>>]
         \o Combinations(Tail(items))

\* faulty variant: zip(xs, ys)
ProductZip(xs, ys) == [e \in 1..Min2(Len(xs), Len(ys)) |-> <<xs[e], ys[e]>>]

\* itertools.product(xs, ys): xs is the outer loop, ys the inner one
Product(xs, ys) ==
    [e \in 1..(Len(xs) * Len(ys)) |->
        <<xs[((e - 1) \div Len(ys)) + 1], ys[((e - 1) % Len(ys)) + 1]>>]

\* ------------------------------------------------------------------ pandas
\* row r is placed strictly before row s by
\* sort_values([f'{a_name}_id', 'gene_set_similarity'], ascending=False)
SortsBefore(r, s) ==
    \/ r.a_id > s.a_id
    \/ r.a_id = s.a_id /\ FracLt(s.gene_set_similarity, r.gene_set_similarity)

\* the sort is stable: a row goes after the rows it ties with
InsertRow(sorted, r) ==
    LET later == {n \in 1..Len(sorted) : SortsBefore(r, sorted[n])}
        pos   == IF later = {} THEN Len(sorted) + 1 ELSE SetMin(later)
    IN  SubSeq(sorted, 1, pos - 1) \o <<r>> \o SubSeq(sorted, pos, Len(sorted))

\* faulty variant: sorted on the id column alone
RECURSIVE SortValuesIdOnly(_)
SortValuesIdOnly(rows) ==
    IF rows = <<>> THEN <<>>
    ELSE LET sorted == SortValuesIdOnly(SubSeq(rows, 1, Len(rows) - 1))
             r      == rows[Len(rows)]
             later  == {n \in 1..Len(sorted) : r.a_id > sorted[n].a_id}
             pos    == IF later = {} THEN Len(sorted) + 1 ELSE SetMin(later)
         IN  SubSeq(sorted, 1, pos - 1) \o <<r>> \o SubSeq(sorted, pos, Len(sorted))

RECURSIVE SortValues(_)
SortValues(rows) ==
    IF rows = <<>> THEN <<>>
    ELSE InsertRow(SortValues(SubSeq(rows, 1, Len(rows) - 1)), rows[Len(rows)])

\* DataFrame.to_csv(path, sep='\t', index=False): the header line, then one
\* line per row in the frame's order
ToCsv(columns, df) == [header |-> columns, lines |-> df]

\* -------------------------------------------------------------------- state
VARIABLES
    managers,                     \* get_compath_manager_classes(), in dictionary order
    minimum_gene_set_similarity,  \* argument
    minimum_string_similarity,    \* argument
    pc,                           \* position in make_similarity_matricies
    dir_exists,                   \* os.makedirs(directory, exist_ok=True) has run
    loaded,                       \* registry entries the first loop has consumed
    database,                     \* items of the dictionary database, in insertion order
    mappings,                     \* the dictionary mappings
    pair,                         \* comparison pairs the second loop has started
    elem,                         \* elements of itt.product the inner loop has consumed
    gene_similarity,              \* the inner loop's local: result of the last call
    rows,                         \* the list rows
    rv,                           \* the dictionary rv
    files,                        \* the files in the directory: path -> content
    writes,                       \* the to_csv calls made so far, in order
    exception,                    \* the exception that ended the run, or "none"
    set_1, set_2, result          \* a direct call of calculate_jaccard (SpecJaccard)

vars == <<managers, minimum_gene_set_similarity, minimum_string_similarity, pc,
          dir_exists, loaded, database, mappings, pair, elem, gene_similarity,
          rows, rv, files, writes, exception, set_1, set_2, result>>

inputs == <<managers, minimum_gene_set_similarity, minimum_string_similarity>>

direct == <<set_1, set_2, result>>

NotCalled == [kind |-> "none"]

\* ----------------------------------------------- the state of the two loops
\* the comparison pairs, in the order the outer loop visits them
Pairs == Combinations(database)

\* the pair being processed: ((a_name, a_sets), (b_name, b_sets))
Current == Pairs[pair]

a_name == Current[1].name

b_name == Current[2].name

\* the cross-product of the current pair, in iteration order
CurrentProduct == Product(Current[1].sets, Current[2].sets)

\* ------------------------------------------------------------------- inputs
\* the display name get_pathway_id_name_mapping() gives pathway p
PathwayName(p) == <<"pathway", p>>

\* what a manager returns: the items of get_pathway_id_to_symbols() in
\* dictionary order, and get_pathway_id_name_mapping()
Dataset(symbols, named) ==
    [symbols |-> symbols, names |-> [p \in named |-> PathwayName(p)]]

Manager(name, is_populated, dataset) ==
    [name |-> name, is_populated |-> is_populated,
     id_to_symbols |-> dataset.symbols, id_name_mapping |-> dataset.names]

\* the defaults of minimum_gene_set_similarity and minimum_string_similarity
DefaultThresholds == <<Frac(4, 5), Frac(0, 1)>>

\* Spec: one pathway per source; gene sets that overlap fully or not at all,
\* an empty gene set, and a pathway without a display name
OnePathway(genes, named) == Dataset(<< <<1, genes>> >>, IF named THEN {1} ELSE {})

WideDatasets ==
    {OnePathway({1}, TRUE), OnePathway({2}, TRUE), OnePathway({2}, FALSE),
     OnePathway({}, TRUE)}

WideConfigs ==
    {[is_populated |-> FALSE, dataset |-> Dataset(<<>>, {})]}
    \cup {[is_populated |-> TRUE, dataset |-> d] : d \in WideDatasets}

\* SpecRows: pathway p of a source holds the genes p+s .. p+s+w-1
Window(p, s, w) == {g \in 1..MaxGene : p + s <= g /\ g < p + s + w}

KeyOrders ==
    {[n \in 1..m |-> n] : m \in 0..MaxPathways}
    \cup {[n \in 1..m |-> m + 1 - n] : m \in 0..MaxPathways}

WindowDataset(ids, s, w) ==
    Dataset([n \in 1..Len(ids) |-> <<ids[n], Window(ids[n], s, w)>>], Range(ids))

RichDatasets ==
    {WindowDataset(ids, s, w) :
        ids \in KeyOrders, s \in 0..(MaxGene - 2), w \in 0..(MaxGene - 1)}

RowsRegistries == {<<Str_a, Str_a_b>>, <<Str_a_b, Str_b_a>>}

RowsThresholds ==
    {DefaultThresholds, <<Frac(1, 2), Frac(0, 1)>>, <<Frac(1, 2), Frac(1, 2)>>}

Genes == 1..MaxGene

\* --------------------------------------------------------------------- Init
\* the state on entry to make_similarity_matricies, the inputs apart
Locals ==
    /\ dir_exists = FALSE
    /\ loaded = 0
    /\ database = <<>>
    /\ mappings = EmptyDict
    /\ pair = 0
    /\ elem = 0
    /\ gene_similarity = NotCalled
    /\ rows = <<>>
    /\ rv = EmptyDict
    /\ files = EmptyDict
    /\ writes = <<>>
    /\ exception = "none"

Entry ==
    /\ pc = "makedirs"
    /\ Locals

NoDirectCall ==
    /\ set_1 = {}
    /\ set_2 = {}
    /\ result = NotCalled

\* any registry over SourceNames, in any order; default thresholds
Init ==
    /\ \E names \in UniqueSeqs(SourceNames) :
         \E cfg \in [1..Len(names) -> WideConfigs] :
            managers = [n \in 1..Len(names) |->
                          Manager(names[n], cfg[n].is_populated, cfg[n].dataset)]
    /\ minimum_gene_set_similarity = DefaultThresholds[1]
    /\ minimum_string_similarity = DefaultThresholds[2]
    /\ Entry
    /\ NoDirectCall

\* two populated sources with up to MaxPathways pathways each
InitRows ==
    /\ \E names \in RowsRegistries : \E da, db \in RichDatasets :
            managers = <<Manager(names[1], TRUE, da), Manager(names[2], TRUE, db)>>
    /\ \E t \in RowsThresholds :
            /\ minimum_gene_set_similarity = t[1]
            /\ minimum_string_similarity = t[2]
    /\ Entry
    /\ NoDirectCall

\* a direct call of calculate_jaccard on any two sets of genes
InitJaccard ==
    /\ set_1 \in SUBSET Genes
    /\ set_2 \in SUBSET Genes
    /\ result = NotCalled
    /\ managers = <<>>
    /\ minimum_gene_set_similarity = DefaultThresholds[1]
    /\ minimum_string_similarity = DefaultThresholds[2]
    /\ pc = "call"
    /\ Locals

\* ------------------------------------------------------------------ actions
\* line 27
MakeDirs ==
    /\ pc = "makedirs"
    /\ dir_exists' = TRUE
    /\ pc' = "load"
    /\ UNCHANGED <<inputs, loaded, database, mappings, pair, elem, gene_similarity,
                   rows, rv, files, writes, exception, direct>>

\* lines 31-39: one iteration of the loop over the registry
LoadSource ==
    /\ pc = "load"
    /\ loaded < Len(managers)
    /\ LET manager == managers[loaded + 1]
       IN  IF ~manager.is_populated
           THEN UNCHANGED <<database, mappings>>
           ELSE /\ database' = Append(database, [name |-> manager.name,
                                                 sets |-> manager.id_to_symbols])
                /\ mappings' = SetItem(mappings, manager.name, manager.id_name_mapping)
    /\ loaded' = loaded + 1
    /\ UNCHANGED <<inputs, pc, dir_exists, pair, elem, gene_similarity, rows, rv,
                   files, writes, exception, direct>>

\* line 41: the registry is exhausted
BeginPairs ==
    /\ pc = "load"
    /\ loaded = Len(managers)
    /\ rv' = EmptyDict
    /\ pc' = "pairs"
    /\ UNCHANGED <<inputs, dir_exists, loaded, database, mappings, pair, elem,
                   gene_similarity, rows, files, writes, exception, direct>>

\* lines 42-48: the outer loop takes the next comparison pair
StartPair ==
    /\ pc = "pairs"
    /\ pair < Len(Pairs)
    /\ pair' = pair + 1
    /\ rows' = <<>>
    /\ elem' = 0
    /\ pc' = "product"
    /\ UNCHANGED <<inputs, dir_exists, loaded, database, mappings, gene_similarity,
                   rv, files, writes, exception, direct>>

\* the outcome of lines 50-63 for one element of the cross-product:
\* an exception, "continue", or the row to append
Score(an, bn, a_item, b_item) ==
    LET similarity        == calculate_jaccard(a_item[2], b_item[2])
        string_similarity == ratio(an, bn)
        a_pathway_name    == GetItem(mappings[an], a_item[1])
        b_pathway_name    == GetItem(mappings[bn], b_item[1])
    IN  IF similarity.kind = "raise" THEN similarity
        ELSE IF FracLt(similarity.value, minimum_gene_set_similarity)
        THEN [kind |-> "continue"]
        ELSE IF FracLt(string_similarity, minimum_string_similarity)
        THEN [kind |-> "continue"]
        ELSE IF a_pathway_name.kind = "raise" THEN a_pathway_name
        ELSE IF b_pathway_name.kind = "raise" THEN b_pathway_name
        ELSE Returned([a_id |-> a_item[1], a_name |-> a_pathway_name.value,
                       b_id |-> b_item[1], b_name |-> b_pathway_name.value,
                       gene_set_similarity |-> similarity.value,
                       string_similarity |-> string_similarity])

\* lines 49-63: one iteration of the inner loop
ScoreElement ==
    /\ pc = "product"
    /\ elem < Len(CurrentProduct)
    /\ LET item    == CurrentProduct[elem + 1]
           outcome == Score(a_name, b_name, item[1], item[2])
           call    == calculate_jaccard(item[1][2], item[2][2])
       IN  /\ gene_similarity' = IF call.kind = "return" THEN call ELSE gene_similarity
           /\ IF outcome.kind = "raise"
              THEN /\ pc' = "error"
                   /\ exception' = outcome.exc
                   /\ UNCHANGED <<elem, rows>>
              ELSE /\ elem' = elem + 1
                   /\ rows' = IF outcome.kind = "return"
                              THEN Append(rows, outcome.value) ELSE rows
                   /\ UNCHANGED <<pc, exception>>
    /\ UNCHANGED <<inputs, dir_exists, loaded, database, mappings, pair, rv, files,
                   writes, direct>>

\* lines 65-72: the cross-product is exhausted; sort, keep and write the report
EmitReport ==
    /\ pc = "product"
    /\ elem = Len(CurrentProduct)
    /\ LET df   == SortValues(rows)
           path == ReportPath(a_name, b_name)
       IN  /\ rv' = SetItem(rv, <<a_name, b_name>>, df)
           /\ files' = SetItem(files, path, ToCsv(Columns(a_name, b_name), df))
           /\ writes' = Append(writes, [pair |-> <<a_name, b_name>>, path |-> path])
    /\ pc' = "pairs"
    /\ UNCHANGED <<inputs, dir_exists, loaded, database, mappings, pair, elem,
                   gene_similarity, rows, exception, direct>>

\* line 74: the pairs are exhausted
Return ==
    /\ pc = "pairs"
    /\ pair = Len(Pairs)
    /\ pc' = "done"
    /\ UNCHANGED <<inputs, dir_exists, loaded, database, mappings, pair, elem,
                   gene_similarity, rows, rv, files, writes, exception, direct>>

\* lines 85-88 called directly
CallJaccard ==
    /\ pc = "call"
    /\ result = NotCalled
    /\ result' = calculate_jaccard(set_1, set_2)
    /\ UNCHANGED <<inputs, pc, dir_exists, loaded, database, mappings, pair, elem,
                   gene_similarity, rows, rv, files, writes, exception, set_1, set_2>>

Next ==
    \/ MakeDirs
    \/ LoadSource
    \/ BeginPairs
    \/ StartPair
    \/ ScoreElement
    \/ EmitReport
    \/ Return

NextJaccard == CallJaccard

\* any registry, default thresholds
Spec == Init /\ [][Next]_vars

\* two populated sources, richer pathway data, several thresholds
SpecRows == InitRows /\ [][Next]_vars

\* calculate_jaccard alone
SpecJaccard == InitJaccard /\ [][NextJaccard]_vars

\* either entry point of the module: a run as in SpecRows, or a direct call
SpecOverlap == (InitRows \/ InitJaccard) /\ [][Next \/ NextJaccard]_vars

\* ------------------------------------------------- vocabulary of the claims
\* the names of the sources whose manager reports populated
Populated == {managers[n].name : n \in {m \in 1..Len(managers) : managers[m].is_populated}}

ManagerOf(name) == managers[CHOOSE n \in 1..Len(managers) : managers[n].name = name]

\* the pathway ids of a source and the gene set of each
PathwayIds(name) == {item[1] : item \in Range(ManagerOf(name).id_to_symbols)}

GenesOf(name, p) ==
    (CHOOSE item \in Range(ManagerOf(name).id_to_symbols) : item[1] = p)[2]

NamedIds(name) == DOMAIN ManagerOf(name).id_name_mapping

\* |s1 \cap s2| / min(|s1|, |s2|) >= threshold, for non-empty s1 and s2
OverlapAtLeast(s1, s2, threshold) ==
    /\ s1 # {}
    /\ s2 # {}
    /\ Cardinality(s1 \cap s2) * threshold.den
         >= threshold.num * Min2(Cardinality(s1), Cardinality(s2))

\* the pathway pairs of comparison pair key that pass both filters
Qualifying(key) ==
    {pq \in PathwayIds(key[1]) \X PathwayIds(key[2]) :
        /\ OverlapAtLeast(GenesOf(key[1], pq[1]), GenesOf(key[2], pq[2]),
                          minimum_gene_set_similarity)
        /\ FracLe(minimum_string_similarity, ratio(key[1], key[2]))}

KeyOfPair(n) == <<Pairs[n][1].name, Pairs[n][2].name>>

\* the file to_csv writes for comparison pair key holding report df
FileOf(key, df) == ToCsv(Columns(key[1], key[2]), df)

InUnit(x) == 0 <= x.num /\ x.num <= x.den /\ x.den > 0

\* -------------------------------------------------------------------- C1
\* C1: when make_similarity_matricies returns, rv has exactly one key per
\* unordered pair of distinct populated sources: n*(n-1)/2 keys, no key
\* (A, A), never both (A, B) and (B, A), no key naming an unpopulated source,
\* and a key for every pair, also when all its rows were filtered out.
C1_OneReportPerPair ==
    pc = "done" =>
        /\ 2 * Cardinality(DOMAIN rv) = Cardinality(Populated) * (Cardinality(Populated) - 1)
        /\ \A key \in DOMAIN rv :
              /\ key[1] # key[2]
              /\ key[1] \in Populated
              /\ key[2] \in Populated
              /\ <<key[2], key[1]>> \notin DOMAIN rv
        /\ \A a, b \in Populated :
              a # b => <<a, b>> \in DOMAIN rv \/ <<b, a>> \in DOMAIN rv

\* three populated sources and one unpopulated one; one report has a row,
\* another has none
C1_Witness ==
    /\ pc = "done"
    /\ Len(managers) = 4
    /\ Cardinality(Populated) = 3
    /\ \E k1, k2 \in DOMAIN rv : rv[k1] = <<>> /\ rv[k2] # <<>>

\* -------------------------------------------------------------------- C2
\* C2: the rows of every report are exactly the pathway pairs (a, b) of the
\* cross-product with overlap(A[a], B[b]) >= minimum_gene_set_similarity and
\* string_sim(A.name, B.name) >= minimum_string_similarity, each once.
C2_RowsAreTheQualifyingPairs ==
    \A key \in DOMAIN rv :
        /\ {<<rv[key][n].a_id, rv[key][n].b_id>> : n \in 1..Len(rv[key])} = Qualifying(key)
        /\ Len(rv[key]) = Cardinality(Qualifying(key))

\* a report that kept some pathway pairs and dropped others
C2_Witness ==
    \E key \in DOMAIN rv :
        /\ Len(rv[key]) > 0
        /\ Len(rv[key]) < Cardinality(PathwayIds(key[1])) * Cardinality(PathwayIds(key[2]))

\* a report that lost every row to the string filter
C2_WitnessString ==
    \E key \in DOMAIN rv :
        /\ rv[key] = <<>>
        /\ FracLt(ratio(key[1], key[2]), minimum_string_similarity)
        /\ \E p \in PathwayIds(key[1]), q \in PathwayIds(key[2]) :
              OverlapAtLeast(GenesOf(key[1], p), GenesOf(key[2], q),
                             minimum_gene_set_similarity)

\* -------------------------------------------------------------------- C3
\* C3: calculate_jaccard with an empty set as either argument raises the
\* named error InvalidInput, not a raw division-by-zero failure.
C3_EmptySetRaisesInvalidInput ==
    (result # NotCalled /\ (set_1 = {} \/ set_2 = {})) => result = Raised("InvalidInput")

\* -------------------------------------------------------------------- C4
\* C4: for non-empty s1, s2: calculate_jaccard(s1, s2) = calculate_jaccard(s2, s1),
\* calculate_jaccard(s1, s1) = 1, and disjoint sets score 0.
C4_SymmetricOneOnSelfZeroOnDisjoint ==
    (result # NotCalled /\ set_1 # {} /\ set_2 # {}) =>
        LET swapped == calculate_jaccard(set_2, set_1)
        IN  /\ result.kind = "return"
            /\ swapped.kind = "return"
            /\ FracEq(result.value, swapped.value)
            /\ set_1 = set_2 => FracEq(result.value, Frac(1, 1))
            /\ set_1 \cap set_2 = {} => FracEq(result.value, Frac(0, 1))

\* a call on two disjoint sets of different sizes
C4_Witness ==
    /\ result # NotCalled
    /\ set_1 \cap set_2 = {}
    /\ Cardinality(set_1) > Cardinality(set_2)
    /\ set_2 # {}

\* -------------------------------------------------------------------- C5
\* v is |s1 \cap s2| / min(|s1|, |s2|), lies in [0, 1], and is 1 exactly
\* when the smaller of s1, s2 is a subset of the larger
IsOverlap(v, s1, s2) ==
    /\ v.num * Min2(Cardinality(s1), Cardinality(s2)) = Cardinality(s1 \cap s2) * v.den
    /\ InUnit(v)
    /\ FracEq(v, Frac(1, 1)) <=>
          IF Cardinality(s1) <= Cardinality(s2) THEN s1 \subseteq s2 ELSE s2 \subseteq s1

C5_WitnessRows ==
    /\ pc = "product"
    /\ elem >= 1
    /\ FracEq(gene_similarity.value, Frac(1, 1))
    /\ Cardinality(CurrentProduct[elem][1][2]) # Cardinality(CurrentProduct[elem][2][2])
    /\ \E n \in 1..Len(rows) :
          /\ FracLt(Frac(0, 1), rows[n].gene_set_similarity)
          /\ FracLt(rows[n].gene_set_similarity, Frac(1, 1))

Ordered(df) ==
    \A n \in 1..(Len(df) - 1) :
        \/ df[n].a_id > df[n + 1].a_id
        \/ /\ df[n].a_id = df[n + 1].a_id
           /\ FracLe(df[n + 1].gene_set_similarity, df[n].gene_set_similarity)

C6_RowsSortedDescending ==
    /\ \A key \in DOMAIN rv : Ordered(rv[key])
    /\ \A path \in DOMAIN files : Ordered(files[path].lines)

\* a written report with two ids of A, two rows that share an id of A and
\* differ in similarity, built from rows that were appended out of order
C6_Witness ==
    /\ pc = "pairs"
    /\ pair >= 1
    /\ ~Ordered(rows)
    /\ LET df == files[ReportPath(a_name, b_name)].lines
       IN  /\ df = rv[<<a_name, b_name>>]
           /\ \E m, n \in 1..Len(df) : df[m].a_id # df[n].a_id
           /\ \E m, n \in 1..Len(df) :
                 /\ df[m].a_id = df[n].a_id
                 /\ ~FracEq(df[m].gene_set_similarity, df[n].gene_set_similarity)
    /\ \E m, n \in 1..Len(rows) :
          /\ m < n
          /\ rows[m].a_id = rows[n].a_id
          /\ FracLt(rows[m].gene_set_similarity, rows[n].gene_set_similarity)

\* -------------------------------------------------------------------- C7
\* C7: after a run that completes, the report of every pair (A, B) is the
\* content of {directory}/{A}_{B}.tsv, and two distinct pairs never share a
\* path.
C7_OneFilePerPair ==
    pc = "done" =>
        /\ \A key \in DOMAIN rv :
              /\ ReportPath(key[1], key[2]) \in DOMAIN files
              /\ files[ReportPath(key[1], key[2])] = FileOf(key, rv[key])
        /\ \A k1, k2 \in DOMAIN rv :
              k1 # k2 => ReportPath(k1[1], k1[2]) # ReportPath(k2[1], k2[2])

\* -------------------------------------------------------------------- C8
\* C8: with zero or one populated source the run neither raises nor enters
\* the scoring loop, rv stays empty and no report file is written.
C8_NoPairsNoReports ==
    Cardinality(Populated) <= 1 =>
        /\ pc \notin {"product", "error"}
        /\ exception = "none"
        /\ pc = "pairs" => pair = Len(Pairs)
        /\ pc \in {"pairs", "done"} => rv = EmptyDict
        /\ writes = <<>>
        /\ files = EmptyDict

\* a run over a registry with exactly one populated source has returned
C8_Witness ==
    /\ pc = "done"
    /\ Cardinality(Populated) = 1
    /\ Len(managers) >= 2

\* a run over a registry with no populated source has returned
C8_WitnessNone ==
    /\ pc = "done"
    /\ Cardinality(Populated) = 0
    /\ Len(managers) >= 1

\* -------------------------------------------------------------------- C9
\* the to_csv calls so far are those of the first n pairs, in order
WrittenExactly(n) ==
    /\ Len(writes) = n
    /\ \A m \in 1..n : writes[m].pair = KeyOfPair(m)

\* C9 (order of the writes): while pair k is scored or has aborted, the
\* to_csv calls made are exactly those of pairs 1..k-1, in order.
C9_WritesInEnumerationOrder ==
    pc \in {"product", "error"} => WrittenExactly(pair - 1)

\* C9: while pair k is scored the files of pairs 1..k-1 have been written,
\* in order, and none later; if the run aborts in pair k, the files of pairs
\* 1..k-1 are on disk with their complete reports and nothing was written
\* for pair k or a later pair.
C9_PartialOutputOnAbort ==
    /\ C9_WritesInEnumerationOrder
    /\ pc = "error" =>
          \A m \in 1..(pair - 1) :
              /\ writes[m].path \in DOMAIN files
              /\ files[writes[m].path] = FileOf(KeyOfPair(m), rv[KeyOfPair(m)])

\* ------------------------------------------------------------------- C10
\* a source holds a pathway id that its name mapping lacks
MissingName(name) == PathwayIds(name) \ NamedIds(name) # {}

\* C10 as stated: a comparison pair that involves a source with a pathway id
\* missing from its name mapping aborts the run: it never gets a report.
C10_MissingNameAbortsPair ==
    \A key \in DOMAIN rv : ~MissingName(key[1]) /\ ~MissingName(key[2])

\* the pathway pairs of key that pass both filters and need a missing name
QualifyingUnnamed(key) ==
    {pq \in Qualifying(key) : pq[1] \notin NamedIds(key[1]) \/ pq[2] \notin NamedIds(key[2])}

\* C10 amended: a row is built only for a pathway pair that passes both
\* filters.  The run ends in KeyError exactly at such a pathway pair with an
\* id its name mapping lacks, the pair then has no report in rv and no
\* to_csv call; and no pair with such a pathway pair ever gets a report.
C10_QualifyingMissingNameAborts ==
    /\ exception = "KeyError" =>
          /\ pc = "error"
          /\ LET item == CurrentProduct[elem + 1]
             IN  <<item[1][1], item[2][1]>> \in QualifyingUnnamed(<<a_name, b_name>>)
          /\ <<a_name, b_name>> \notin DOMAIN rv
          /\ \A m \in 1..Len(writes) : writes[m].pair # <<a_name, b_name>>
    /\ \A key \in DOMAIN rv : QualifyingUnnamed(key) = {}

\* the run has ended in KeyError in its second pair, after a first pair
\* that involved the same source and completed
C10_Witness ==
    /\ exception = "KeyError"
    /\ pair >= 2
    /\ \E key \in DOMAIN rv : MissingName(key[1]) \/ MissingName(key[2])

====
